---- MODULE Spec2Model ----
(***************************************************************************)
(* goweight: attribution of the byte size of a Go binary to the packages   *)
(* and modules that contributed to it.                                     *)
(*                                                                         *)
(* Go strings are modelled as sequences of one-character strings, so that  *)
(* strings.Index, strings.Split, strings.Join, strings.Contains and        *)
(* strings.HasPrefix are computed character by character as the library    *)
(* computes them.  A Go map is a TLA+ function whose DOMAIN is its key set;*)
(* the nil map is the function with the empty domain.                      *)
(***************************************************************************)
EXTENDS Integers, Sequences, FiniteSets, TLC

VARIABLES
    pc,          \* position of the running operation
    symbolName,  \* argument of extractPackageFromSymbol
    resolved,    \* its result
    binary,      \* the binary file under analysis
    archType,    \* analyzeBinarySymbolTable: the format that parsed, "" if none
    symbols,     \* analyzeBinarySymbolTable: the resolved symbols collected
    pkgSizes,    \* the per-package size map returned by analyzeBinarySymbolTable
    symErr,      \* the error returned by analyzeBinarySymbolTable, "nil" if none
    info,        \* the build info embedded in the binary
    modCache,    \* the file system below the module cache
    modules,     \* the report of ProcessBinary or of AnalyzeBuildProcess
    rolled,      \* the report of aggregateByTopLevelPackage
    output,      \* the lines printed by "go build -work -a -x"
    importcfg,   \* the importcfg file beside the build directories
    BuildCmd,    \* GoWeight.BuildCmd
    command,     \* the command line handed to exec.Command
    tempFiles,   \* the temporary files of the tool in the working directory
    deferred     \* the deferred calls of BuildAndAnalyzeBinary

vars == <<pc, symbolName, resolved, binary, archType, symbols, pkgSizes, symErr,
          info, modCache, modules, rolled, output, importcfg,
          BuildCmd, command, tempFiles, deferred>>

resolverVars == <<symbolName, resolved>>
symbolVars == <<archType, symbols, pkgSizes, symErr>>
reportVars == <<info, modCache, modules, rolled>>
buildVars == <<output, importcfg>>
commandVars == <<BuildCmd, command, tempFiles, deferred>>

(***************************************************************************)
(* String literals of the program and of its documented examples.          *)
(***************************************************************************)
S_empty == <<>>
S_dot == <<".">>
S_slash == <<"/">>
S_runtime == <<"r", "u", "n", "t", "i", "m", "e">>
S_main == <<"m", "a", "i", "n">>
S_go == <<"g", "o">>
S_x == <<"x">>
N_github_acme == <<"g", "i", "t", "h", "u", "b", ".", "c", "o", "m", "/", "a", "c", "m", "e", "/", "f", "o", "o", ".", "B", "a", "r">>
N_github_xy == <<"g", "i", "t", "h", "u", "b", ".", "c", "o", "m", "/", "x", "/", "y", ".", "D", "o">>
N_newobject == <<"r", "u", "n", "t", "i", "m", "e", ".", "n", "e", "w", "o", "b", "j", "e", "c", "t">>
N_main_run == <<"m", "a", "i", "n", ".", "r", "u", "n">>
N_gcStart == <<"r", "u", "n", "t", "i", "m", "e", ".", "g", "c", "S", "t", "a", "r", "t">>
N_noise == <<"n", "o", "i", "s", "e", "1", "2", "3">>
N_tmp == <<"t", "m", "p", "4", "2">>
N_ab_F == <<"a", "/", "b", ".", "F">>
N_ab_T_M == <<"a", "/", "b", ".", "T", ".", "M">>
N_ab_PT_M == <<"a", "/", "b", ".", "(", "*", "T", ")", ".", "M">>
P_github_acme == <<"g", "i", "t", "h", "u", "b", ".", "c", "o", "m", "/", "a", "c", "m", "e", "/", "f", "o", "o">>
P_github_xy == <<"g", "i", "t", "h", "u", "b", ".", "c", "o", "m", "/", "x", "/", "y">>
P_ab == <<"a", "/", "b">>
S_devel == <<"(", "d", "e", "v", "e", "l", ")">>
S_v123 == <<"v", "1", ".", "2", ".", "3">>
S_at == <<"@">>
P_app == <<"e", "x", "a", "m", "p", "l", "e", ".", "c", "o", "m", "/", "a", "p", "p">>
P_lib == <<"e", "x", "a", "m", "p", "l", "e", ".", "c", "o", "m", "/", "l", "i", "b">>

(***************************************************************************)
(* Package strings.                                                        *)
(***************************************************************************)
\* strings.Index(s, c) for a one-character separator: the 0-based index of
\* the first occurrence of c in s, or -1.
Index(s, c) ==
    IF \E i \in 1..Len(s) : s[i] = c
    THEN (CHOOSE i \in 1..Len(s) : s[i] = c /\ \A j \in 1..(i - 1) : s[j] # c) - 1
    ELSE -1

\* strings.Contains(s, c) for a one-character substring.
Contains(s, c) == \E i \in 1..Len(s) : s[i] = c

\* strings.HasPrefix(s, p).
HasPrefix(s, p) == Len(s) >= Len(p) /\ SubSeq(s, 1, Len(p)) = p

\* strings.Split(s, c) for a one-character separator: the substrings between
\* the occurrences of c; a string without c gives the one-element list <<s>>.
RECURSIVE Split(_, _)
Split(s, c) ==
    LET idx == Index(s, c)
    IN  IF idx < 0 THEN <<s>>
        ELSE <<SubSeq(s, 1, idx)>> \o Split(SubSeq(s, idx + 2, Len(s)), c)

\* strings.Join(parts, c) for a one-character separator.
RECURSIVE Join(_, _)
Join(parts, c) ==
    IF Len(parts) = 0 THEN <<>>
    ELSE IF Len(parts) = 1 THEN parts[1]
    ELSE parts[1] \o <<c>> \o Join(Tail(parts), c)

\* strings.Contains(s, substr) for a substring of any length.
ContainsStr(s, substr) ==
    \E i \in 1..(Len(s) - Len(substr) + 1) : SubSeq(s, i, i + Len(substr) - 1) = substr

\* strings.HasSuffix(s, suffix).
HasSuffix(s, suffix) ==
    Len(s) >= Len(suffix) /\ SubSeq(s, Len(s) - Len(suffix) + 1, Len(s)) = suffix

\* strings.Fields(s) for a line whose only white space is the blank: the
\* non-empty substrings between the blanks.
Fields(s) == SelectSeq(Split(s, " "), LAMBDA f : Len(f) > 0)

(***************************************************************************)
(* extractPackageFromSymbol                                                *)
(***************************************************************************)
\* The loop "for i := len(parts) - 1; i >= 0; i--" of extractPackageFromSymbol:
\* the first prefix parts[:i], from the longest to the empty one, that holds
\* a "/" or is "main" or "runtime"; "" when the loop runs out.
RECURSIVE walkPrefixes(_, _)
walkPrefixes(parts, i) ==
    IF i < 0 THEN S_empty
    ELSE LET packageName == Join(SubSeq(parts, 1, i), ".")
         IN  IF Contains(packageName, "/") \/ packageName = S_main \/ packageName = S_runtime
             THEN packageName
             ELSE walkPrefixes(parts, i - 1)

\* A plausible slip: the toolchain's own name "go" left out of the reserved set.
extractPackageFromSymbol_noGo(name) ==
    LET idx == Index(name, ".")
    IN  IF idx > 0
        THEN LET prefix == SubSeq(name, 1, idx)
             IN  IF prefix = S_runtime \/ prefix = S_main
                 THEN prefix
                 ELSE IF Contains(prefix, "/") \/ Contains(prefix, ".")
                      THEN LET parts == Split(name, ".")
                           IN  IF Len(parts) > 1 THEN walkPrefixes(parts, Len(parts) - 1)
                               ELSE S_empty
                      ELSE S_empty
        ELSE S_empty

extractPackageFromSymbol(name) ==
    LET idx == Index(name, ".")
    IN  IF idx > 0
        THEN LET prefix == SubSeq(name, 1, idx)
             IN  IF prefix = S_runtime \/ prefix = S_main \/ prefix = S_go
                 THEN prefix
                 ELSE IF Contains(prefix, "/") \/ Contains(prefix, ".")
                      THEN LET parts == Split(name, ".")
                           IN  IF Len(parts) > 1 THEN walkPrefixes(parts, Len(parts) - 1)
                               ELSE S_empty
                      ELSE S_empty
        ELSE S_empty

\* The sequences over S of length n, and of length at most n.
RECURSIVE SeqsOfLen(_, _)
SeqsOfLen(S, n) ==
    IF n = 0 THEN {<<>>}
    ELSE {<<x>> \o r : x \in S, r \in SeqsOfLen(S, n - 1)}

SeqsUpTo(S, n) == UNION {SeqsOfLen(S, k) : k \in 0..n}

(***************************************************************************)
(* Go maps.                                                                *)
(***************************************************************************)
\* The nil map, also the result of make(map[string]uint64).
NilMap == [k \in {} |-> 0]

\* m[k] of Go: the zero value for a missing key.
MapGet(m, k) == IF k \in DOMAIN m THEN m[k] ELSE 0

\* m[k] = v.
MapPut(m, k, v) == [x \in DOMAIN m \cup {k} |-> IF x = k THEN v ELSE m[x]]

RECURSIVE sumOverKeys(_, _)
sumOverKeys(m, keys) ==
    IF keys = {} THEN 0
    ELSE LET k == CHOOSE x \in keys : TRUE
         IN  m[k] + sumOverKeys(m, keys \ {k})

\* sumMapValues: the sum of all values of the map.
sumMapValues(m) == sumOverKeys(m, DOMAIN m)

(***************************************************************************)
(* analyzeBinarySymbolTable                                                *)
(*                                                                         *)
(* A binary file is a record                                               *)
(*   openOK    os.Open succeeds                                            *)
(*   format    the one container format whose magic the file carries       *)
(*             ("ELF", "MachO", "PE") or "none"                            *)
(*   nsections len(elfFile.Sections)                                       *)
(*   symtab    the records of the static symbol table (elfFile.Symbols(),  *)
(*             machoFile.Symtab.Syms); a missing table reads as empty      *)
(*   dynsym    the records of the ELF dynamic symbol table                 *)
(*   fileSize  the size os.Stat reports, statOK whether os.Stat succeeds   *)
(* and a symbol-table record is [Name, Size, Section].                     *)
(***************************************************************************)
\* estimateMachOSymbolSize: a Mach-O symbol record has no size; the code
\* returns a fixed default.
estimateMachOSymbolSize == 100

\* A plausible slip: the check "pkg != \"\"" left out, every record kept.
elfSymbols_keepUnresolved(syms, nsections) ==
    LET keep(sym) == sym.Section >= 0 /\ sym.Section < nsections
        F[i \in 0..Len(syms)] ==
            IF i = 0 THEN <<>>
            ELSE IF keep(syms[i])
                 THEN Append(F[i - 1], [Name |-> syms[i].Name, Size |-> syms[i].Size,
                                        Package |-> extractPackageFromSymbol(syms[i].Name)])
                 ELSE F[i - 1]
    IN  F[Len(syms)]

\* The loop over an ELF symbol table: a record is kept when its section index
\* is within the section list and its name resolves to a package.
elfSymbols(syms, nsections) ==
    LET keep(sym) == /\ sym.Section >= 0 /\ sym.Section < nsections
                     /\ extractPackageFromSymbol(sym.Name) # S_empty
        F[i \in 0..Len(syms)] ==
            IF i = 0 THEN <<>>
            ELSE IF keep(syms[i])
                 THEN Append(F[i - 1], [Name |-> syms[i].Name, Size |-> syms[i].Size,
                                        Package |-> extractPackageFromSymbol(syms[i].Name)])
                 ELSE F[i - 1]
    IN  F[Len(syms)]

\* The ELF branch: the static table, and the dynamic table when the static
\* one left the list empty.
readELF(b) ==
    LET static == elfSymbols(b.symtab, b.nsections)
    IN  IF Len(static) = 0 THEN elfSymbols(b.dynsym, b.nsections) ELSE static

\* The Mach-O branch: every record whose name resolves, with the default size.
readMachO(b) ==
    LET syms == b.symtab
        F[i \in 0..Len(syms)] ==
            IF i = 0 THEN <<>>
            ELSE IF extractPackageFromSymbol(syms[i].Name) # S_empty
                 THEN Append(F[i - 1], [Name |-> syms[i].Name, Size |-> estimateMachOSymbolSize,
                                        Package |-> extractPackageFromSymbol(syms[i].Name)])
                 ELSE F[i - 1]
    IN  F[Len(syms)]

\* The PE branch reads sections only: no symbol is appended.
readPE(b) == <<>>

\* A plausible slip: "=" for "+=", the last symbol of a package wins.
aggregateSizes_overwrite(syms) ==
    LET F[i \in 0..Len(syms)] ==
            IF i = 0 THEN NilMap
            ELSE MapPut(F[i - 1], syms[i].Package, syms[i].Size)
    IN  F[Len(syms)]

\* "pkgSizes[sym.Package] += sym.Size" over the symbols, in order.
aggregateSizes(syms) ==
    LET F[i \in 0..Len(syms)] ==
            IF i = 0 THEN NilMap
            ELSE MapPut(F[i - 1], syms[i].Package,
                        MapGet(F[i - 1], syms[i].Package) + syms[i].Size)
    IN  F[Len(syms)]

\* "pkgSymbolCounts[sym.Package]++" over the symbols.
countSymbols(syms) ==
    LET F[i \in 0..Len(syms)] ==
            IF i = 0 THEN NilMap
            ELSE MapPut(F[i - 1], syms[i].Package, MapGet(F[i - 1], syms[i].Package) + 1)
    IN  F[Len(syms)]

\* The file sizes of the model.
FileSizes == {0, 5, 90, 1000}

\* The pairs (file size, symbol count), file size in FileSizes and count up
\* to 12, where the float64 product size * 0.7 falls below the exact value
\* and the conversion to uint64 gives one less than floor(7 * size / (10 * n)):
\* float64(90) * 0.7 is 62.99999999999999.
FloatShort == {<<90, 1>>, <<90, 3>>, <<90, 7>>, <<90, 9>>}

\* uint64(float64(totalBinarySize) * codeRatio / float64(totalSymbols)) with
\* codeRatio = 0.7: the conversion truncates.
avgSymbolSize(totalBinarySize, totalSymbols) ==
    LET exact == (7 * totalBinarySize) \div (10 * totalSymbols)
    IN  IF <<totalBinarySize, totalSymbols>> \in FloatShort THEN exact - 1 ELSE exact

\* Lines 159-191: direct aggregation, then, when the sizes sum to zero and
\* os.Stat succeeds, count * avgSymbolSize for every package.
reconcile(syms, fileSize, statOK) ==
    LET direct == aggregateSizes(syms)
        counts == countSymbols(syms)
    IN  IF Len(syms) > 0 /\ sumMapValues(direct) = 0 /\ statOK
        THEN [p \in DOMAIN direct |-> counts[p] * avgSymbolSize(fileSize, Len(syms))]
        ELSE direct

\* The symbols the format-detection cascade collects: ELF, else Mach-O, else
\* PE, else nothing.
readSymbols(b) ==
    IF b.format = "ELF" THEN readELF(b)
    ELSE IF b.format = "MachO" THEN readMachO(b)
    ELSE IF b.format = "PE" THEN readPE(b)
    ELSE <<>>

\* The whole function: the per-package map and the error.
analyzeBinarySymbolTable(b) ==
    IF ~b.openOK THEN [pkgSizes |-> NilMap, err |-> "open"]
    ELSE LET syms == readSymbols(b)
         IN  IF Len(syms) = 0
             THEN [pkgSizes |-> NilMap, err |-> "no symbols found"]
             ELSE [pkgSizes |-> reconcile(syms, b.fileSize, b.statOK), err |-> "nil"]

(***************************************************************************)
(* humanize.Bytes (github.com/dustin/go-humanize), for sizes below 10^6:   *)
(* "%d B" below 10, else the value in units of 1000^e rounded to tenths    *)
(* and printed with "%.1f" below 10 and "%.0f" from 10 on.                 *)
(***************************************************************************)
DigitChars == <<"0", "1", "2", "3", "4", "5", "6", "7", "8", "9">>

\* The decimal digits of n, as fmt prints them.
RECURSIVE itoa(_)
itoa(n) ==
    IF n < 10 THEN <<DigitChars[n + 1]>>
    ELSE itoa(n \div 10) \o <<DigitChars[(n % 10) + 1]>>

S_unitB == <<" ", "B">>
S_unitkB == <<" ", "k", "B">>

humanizeBytes(s) ==
    IF s < 10 THEN itoa(s) \o S_unitB
    ELSE LET base == IF s < 1000 THEN 1 ELSE 1000
             unit == IF s < 1000 THEN S_unitB ELSE S_unitkB
             \* math.Floor(float64(s) / base * 10 + 0.5), in tenths
             tenths == (20 * s + base) \div (2 * base)
             w == tenths \div 10
             f == tenths % 10
         IN  IF tenths < 100
             THEN itoa(w) \o S_dot \o itoa(f) \o unit
             \* "%.0f": to the nearest integer, a half to the even one
             ELSE itoa(IF f > 5 \/ (f = 5 /\ w % 2 = 1) THEN w + 1 ELSE w) \o unit

(***************************************************************************)
(* The module cache and estimateModuleSize.                                *)
(*                                                                         *)
(* The file system below $GOPATH/pkg/mod is a function from the path       *)
(* modulePath + "@" + version to what os.Stat finds there:                 *)
(*   [kind |-> "missing"], [kind |-> "file"], or                           *)
(*   [kind |-> "dir", walk |-> the entries filepath.Walk visits]           *)
(* and a visited entry is [isDir, size, err], err for an entry the walk    *)
(* reports with an error.                                                  *)
(***************************************************************************)
\* A plausible slip: the callback returns the error, which ends the walk at
\* the first entry that came with one.
calculateDirSize_abortOnError(walk) ==
    LET F[i \in 0..Len(walk)] ==
            IF i = 0 THEN 0
            ELSE IF \E j \in 1..i : walk[j].err THEN F[i - 1]
            ELSE IF ~walk[i].isDir THEN F[i - 1] + walk[i].size
            ELSE F[i - 1]
    IN  F[Len(walk)]

\* calculateDirSize: the callback adds the size of every entry that came
\* without an error and is not a directory, and never stops the walk.
calculateDirSize(walk) ==
    LET F[i \in 0..Len(walk)] ==
            IF i = 0 THEN 0
            ELSE IF walk[i].err THEN F[i - 1]
            ELSE IF ~walk[i].isDir THEN F[i - 1] + walk[i].size
            ELSE F[i - 1]
    IN  F[Len(walk)]

cachePath(modulePath, version) == modulePath \o S_at \o version

\* os.Stat of a path of the module cache.
statPath(fsys, path) == IF path \in DOMAIN fsys THEN fsys[path] ELSE [kind |-> "missing"]

\* A plausible slip: the check of the version left out.
estimateModuleSize_noDevelCheck(fsys, modulePath, version) ==
    LET st == statPath(fsys, cachePath(modulePath, version))
    IN  IF st.kind = "dir" THEN calculateDirSize(st.walk) ELSE 0

\* Lines 170-190: no look-up for the versions "" and "(devel)"; otherwise
\* the size of the directory <module path>@<version> of the module cache
\* when os.Stat finds a directory there.
estimateModuleSize(fsys, modulePath, version) ==
    IF version = S_empty \/ version = S_devel THEN 0
    ELSE LET st == statPath(fsys, cachePath(modulePath, version))
         IN  IF st.kind = "dir" THEN calculateDirSize(st.walk) ELSE 0

(***************************************************************************)
(* sort.Slice with the comparison "modules[i].Size > modules[j].Size".     *)
(* For slices of at most 12 elements the library runs an insertion sort.   *)
(***************************************************************************)
\* A plausible slip: the comparison "<", an ascending order.
sizeBefore_ascending(a, b) == a.Size < b.Size

\* The less function of both sort.Slice calls.
sizeBefore(a, b) == a.Size > b.Size

\* One pass of the inner loop: x moves left past every element it is before.
RECURSIVE insertSorted(_, _)
insertSorted(sorted, x) ==
    IF Len(sorted) > 0 /\ sizeBefore(x, sorted[Len(sorted)])
    THEN Append(insertSorted(SubSeq(sorted, 1, Len(sorted) - 1), x), sorted[Len(sorted)])
    ELSE Append(sorted, x)

sortBySize(entries) ==
    LET F[i \in 0..Len(entries)] ==
            IF i = 0 THEN <<>> ELSE insertSorted(F[i - 1], entries[i])
    IN  F[Len(entries)]

(***************************************************************************)
(* ProcessBinary                                                           *)
(*                                                                         *)
(* Build info is [ok, Main, Deps]: ok whether buildinfo.ReadFile succeeds, *)
(* Main a module [Path, Version], Deps a list of modules or NilDep.        *)
(***************************************************************************)
NilDep == [Path |-> S_empty, Version |-> S_empty, isNil |-> TRUE]

Module(path, version) == [Path |-> path, Version |-> version, isNil |-> FALSE]

\* A plausible slip: the two sources added up.
moduleSize_sum(pkgs, fsys, path, version) ==
    MapGet(pkgs, path) + estimateModuleSize(fsys, path, version)

\* A plausible slip: the symbol-derived size never used.
moduleSize_cacheOnly(pkgs, fsys, path, version) ==
    estimateModuleSize(fsys, path, version)

\* "if s, exists := pkgSizes[path]; exists && s > 0 { size = s } else
\* { size = estimateModuleSize(path, version) }".
moduleSize(pkgs, fsys, path, version) ==
    IF path \in DOMAIN pkgs /\ pkgs[path] > 0
    THEN pkgs[path]
    ELSE estimateModuleSize(fsys, path, version)

newModuleEntry(pkgs, fsys, m) ==
    LET size == moduleSize(pkgs, fsys, m.Path, m.Version)
    IN  [Path |-> m.Path, Name |-> m.Path, Version |-> m.Version,
         Size |-> size, SizeHuman |-> humanizeBytes(size)]

\* A plausible slip: no entry for a main module without a version.
mainEntries_requireVersion(pkgs, fsys, inf) ==
    IF inf.Main.Path # S_empty /\ inf.Main.Version # S_empty
    THEN <<newModuleEntry(pkgs, fsys, inf.Main)>> ELSE <<>>

\* The entry of the main module, when its path is not empty.
mainEntries(pkgs, fsys, inf) ==
    IF inf.Main.Path # S_empty THEN <<newModuleEntry(pkgs, fsys, inf.Main)>> ELSE <<>>

\* The entries of the dependencies, one per non-nil element, in order.
depEntries(pkgs, fsys, inf) ==
    LET F[i \in 0..Len(inf.Deps)] ==
            IF i = 0 THEN <<>>
            ELSE IF ~inf.Deps[i].isNil
                 THEN Append(F[i - 1], newModuleEntry(pkgs, fsys, inf.Deps[i]))
                 ELSE F[i - 1]
    IN  F[Len(inf.Deps)]

\* A plausible slip: no report without a per-package map.
assembleModules_needsSymbols(pkgs, fsys, inf) ==
    IF DOMAIN pkgs = {} THEN <<>>
    ELSE sortBySize(mainEntries(pkgs, fsys, inf) \o depEntries(pkgs, fsys, inf))

\* Lines 62-113: main module, dependencies, sort.
assembleModules(pkgs, fsys, inf) ==
    sortBySize(mainEntries(pkgs, fsys, inf) \o depEntries(pkgs, fsys, inf))

(***************************************************************************)
(* aggregateByTopLevelPackage and getTopLevelPackage                       *)
(***************************************************************************)
S_internal == <<"i", "n", "t", "e", "r", "n", "a", "l", "/">>
S_vendor == <<"v", "e", "n", "d", "o", "r", "/">>
S_internalStar == <<"i", "n", "t", "e", "r", "n", "a", "l", "/", "*">>
S_vendorStar == <<"v", "e", "n", "d", "o", "r", "/", "*">>

getTopLevelPackage(fullPackageName) ==
    IF HasPrefix(fullPackageName, S_runtime) THEN S_runtime
    ELSE IF HasPrefix(fullPackageName, S_internal) THEN S_internalStar
    ELSE IF HasPrefix(fullPackageName, S_vendor) THEN S_vendorStar
    ELSE IF Contains(fullPackageName, ".") \/ Contains(fullPackageName, "/")
         THEN LET parts == Split(fullPackageName, "/")
              IN  IF Len(parts) >= 2 THEN Join(SubSeq(parts, 1, 2), "/") ELSE parts[1]
         ELSE fullPackageName

\* The loop with "existing.Size += module.Size" left out: the first member's
\* size stays.
aggregateEntries_first(mods) ==
    LET F[i \in 0..Len(mods)] ==
            IF i = 0 THEN NilMap
            ELSE LET topLevel == getTopLevelPackage(mods[i].Name)
                     prev == F[i - 1]
                 IN  IF topLevel \in DOMAIN prev
                     THEN prev
                     ELSE MapPut(prev, topLevel,
                                 [Path |-> topLevel, Name |-> topLevel, Version |-> S_empty,
                                  Size |-> mods[i].Size,
                                  SizeHuman |-> humanizeBytes(mods[i].Size)])
    IN  F[Len(mods)]

\* A plausible slip: the size accumulated without rendering it again.
aggregateEntries_staleHuman(mods) ==
    LET F[i \in 0..Len(mods)] ==
            IF i = 0 THEN NilMap
            ELSE LET topLevel == getTopLevelPackage(mods[i].Name)
                     prev == F[i - 1]
                 IN  IF topLevel \in DOMAIN prev
                     THEN MapPut(prev, topLevel,
                                 [prev[topLevel] EXCEPT !.Size = @ + mods[i].Size])
                     ELSE MapPut(prev, topLevel,
                                 [Path |-> topLevel, Name |-> topLevel, Version |-> S_empty,
                                  Size |-> mods[i].Size,
                                  SizeHuman |-> humanizeBytes(mods[i].Size)])
    IN  F[Len(mods)]

\* The loop over the modules: the map from top-level name to its entry.
aggregateEntries(mods) ==
    LET F[i \in 0..Len(mods)] ==
            IF i = 0 THEN NilMap
            ELSE LET topLevel == getTopLevelPackage(mods[i].Name)
                     prev == F[i - 1]
                 IN  IF topLevel \in DOMAIN prev
                     THEN LET size == prev[topLevel].Size + mods[i].Size
                          IN  MapPut(prev, topLevel,
                                     [prev[topLevel] EXCEPT !.Size = size,
                                                            !.SizeHuman = humanizeBytes(size)])
                     ELSE MapPut(prev, topLevel,
                                 [Path |-> topLevel, Name |-> topLevel, Version |-> S_empty,
                                  Size |-> mods[i].Size,
                                  SizeHuman |-> humanizeBytes(mods[i].Size)])
    IN  F[Len(mods)]

\* The orders in which "for _, module := range aggregated" can append the
\* entries: any order of the keys.
rangeOrders(agg) ==
    {s \in SeqsOfLen(DOMAIN agg, Cardinality(DOMAIN agg)) :
         \A k \in DOMAIN agg : \E i \in 1..Len(s) : s[i] = k}

\* Lines 102-112: the entries appended in the order the range statement
\* yielded the keys, then sorted.
aggregateByTopLevelPackage(mods, order) ==
    sortBySize([i \in 1..Len(order) |-> aggregateEntries(mods)[order[i]]])

(***************************************************************************)
(* parseBuildOutput and extractPackageNameFromWorkDir                      *)
(***************************************************************************)
S_compile == <<"/", "c", "o", "m", "p", "i", "l", "e">>
S_dashO == <<"-", "o">>
S_pkgA == <<"_", "p", "k", "g", "_", ".", "a">>
S_packR == <<"p", "a", "c", "k", " ", "r", " ">>
S_zeroB == <<"0", " ", "B">>

\* The importcfg file when os.ReadFile fails.
NoImportcfg == [ok |-> FALSE, entries |-> <<>>]

\* filepath.Base of a path that does not end in a slash: the text after the
\* last slash.
filepathBase(path) ==
    LET slashes == {i \in 1..Len(path) : path[i] = "/"}
    IN  IF slashes = {} THEN path
        ELSE SubSeq(path, (CHOOSE i \in slashes : \A j \in slashes : j <= i) + 1, Len(path))

\* filepath.Ext: the suffix that starts at the last dot of the last element.
filepathExt(path) ==
    LET base == filepathBase(path)
        dots == {i \in 1..Len(base) : base[i] = "."}
    IN  IF dots = {} THEN S_empty
        ELSE SubSeq(base, CHOOSE i \in dots : \A j \in dots : j <= i, Len(base))

\* The "packagefile <package>=<file>" lines of importcfg, in order: the
\* package of the first line whose file is the path; without such a line, or
\* without the file, the base name of the path without its extension.
extractPackageNameFromWorkDir(cfg, path) ==
    LET hits == {i \in 1..Len(cfg.entries) : cfg.entries[i].file = path}
        base == filepathBase(path)
    IN  IF cfg.ok /\ hits # {}
        THEN cfg.entries[CHOOSE i \in hits : \A j \in hits : i <= j].package
        ELSE SubSeq(base, 1, Len(base) - Len(filepathExt(base)))

\* "for i, part := range parts { if part == "-o" && i+1 < len(parts) ...":
\* the field after the first "-o" that has one, or "".
outputFileOf(parts) ==
    LET at == {i \in 1..(Len(parts) - 1) : parts[i] = S_dashO}
    IN  IF at = {} THEN S_empty
        ELSE parts[(CHOOSE i \in at : \A j \in at : i <= j) + 1]

\* The entry appended for a file unless one of its name is there already:
\* Size 0 and the literal "0 B".
appendUnlessPresent(mods, cfg, file) ==
    LET packageName == extractPackageNameFromWorkDir(cfg, file)
    IN  IF \E i \in 1..Len(mods) : mods[i].Name = packageName THEN mods
        ELSE Append(mods, [Path |-> file, Name |-> packageName, Version |-> S_empty,
                           Size |-> 0, SizeHuman |-> S_zeroB])

\* Lines 93-129: a line of a compile command with an output file.
compileBranch(mods, cfg, line) ==
    IF ContainsStr(line, S_compile) /\ ContainsStr(line, S_dashO) /\ ContainsStr(line, S_pkgA)
    THEN LET outputFile == outputFileOf(Fields(line))
         IN  IF outputFile # S_empty THEN appendUnlessPresent(mods, cfg, outputFile) ELSE mods
    ELSE mods

\* Lines 132-160: a line "pack r <file>_pkg_.a ...".
packBranch(mods, cfg, line) ==
    IF HasPrefix(line, S_packR)
    THEN LET parts == Fields(line)
         IN  IF Len(parts) >= 3 /\ HasSuffix(parts[3], S_pkgA)
             THEN appendUnlessPresent(mods, cfg, parts[3])
             ELSE mods
    ELSE mods

\* parseBuildOutput over the lines of the output, then the sort.
parseBuildOutput(lines, cfg) ==
    LET F[i \in 0..Len(lines)] ==
            IF i = 0 THEN <<>>
            ELSE packBranch(compileBranch(F[i - 1], cfg, lines[i]), cfg, lines[i])
    IN  sortBySize(F[Len(lines)])

(***************************************************************************)
(* The build commands of BuildAndAnalyzeBinary and AnalyzeBuildProcess.    *)
(* An argument is a string; the loops compare arguments as wholes.         *)
(***************************************************************************)
TempBinary == "goweight-temp-binary"
TempOutput == "temp_output_for_analysis"

\* NewGoWeight: the initial BuildCmd.
NewBuildCmd == <<"go", "build", "-work", "-a">>

\* Lines 20-35 of BuildAndAnalyzeBinary.  The "i++" of the first branch
\* changes the copy of the index of this iteration only: the range statement
\* goes on with the next argument.
binaryBuildCmd(originalCmd) ==
    LET F[i \in 0..Len(originalCmd)] ==
            IF i = 0 THEN <<"go", "build", "-o", TempBinary>>
            ELSE LET arg == originalCmd[i]
                 IN  IF arg = "-o" /\ i < Len(originalCmd)
                     THEN F[i - 1] \o <<"-o", TempBinary>>
                     ELSE IF arg # "go" /\ arg # "build" /\ arg # "-work" /\ arg # "-a"
                          THEN Append(F[i - 1], arg)
                          ELSE F[i - 1]
    IN  F[Len(originalCmd)]

\* Lines 45-69 of AnalyzeBuildProcess, with the same "i++".
analysisBuildCmd(originalCmd, packages) ==
    LET F[i \in 0..Len(originalCmd)] ==
            IF i = 0 THEN <<"go", "build", "-work", "-a", "-x">>
            ELSE LET arg == originalCmd[i]
                 IN  IF arg = "-o" /\ i < Len(originalCmd)
                     THEN F[i - 1]
                     ELSE IF /\ arg # "go" /\ arg # "build"
                             /\ arg # "-work" /\ arg # "-a" /\ arg # "-x"
                          THEN Append(F[i - 1], arg)
                          ELSE F[i - 1]
    IN  F[Len(originalCmd)] \o <<"-o", TempOutput>>
            \o (IF Len(packages) > 0 THEN packages ELSE <<".">>)

(***************************************************************************)
(* The resolver applied to bounded symbol names.                           *)
(***************************************************************************)
MaxPieces == 5

Pieces == {S_runtime, S_main, S_go, S_x, S_dot, S_slash}

RECURSIVE NamesOfLen(_)
NamesOfLen(n) ==
    IF n = 0 THEN {S_empty}
    ELSE {p \o r : p \in Pieces, r \in NamesOfLen(n - 1)}

ExampleNames ==
    {N_github_acme, N_github_xy, N_newobject, N_main_run, N_gcStart,
     N_noise, N_tmp, N_ab_F, N_ab_T_M, N_ab_PT_M}

SymbolNames == ExampleNames \cup UNION {NamesOfLen(n) : n \in 0..MaxPieces}

\* The build info of a run that reads none.
NoInfo == [ok |-> FALSE, Main |-> Module(S_empty, S_empty), Deps |-> <<>>]

\* The binary of a run that analyzes no file.
NoBinary ==
    [openOK |-> FALSE, format |-> "none", nsections |-> 0, symtab |-> <<>>,
     dynsym |-> <<>>, fileSize |-> 0, statOK |-> FALSE]

InitResolve ==
    /\ pc = "resolve"
    /\ symbolName \in SymbolNames
    /\ resolved = S_empty
    /\ binary = NoBinary
    /\ archType = "" /\ symbols = <<>> /\ pkgSizes = NilMap /\ symErr = "nil"
    /\ info = NoInfo /\ modCache = NilMap /\ modules = <<>> /\ rolled = <<>>
    /\ output = <<>> /\ importcfg = NoImportcfg
    /\ BuildCmd = NewBuildCmd /\ command = <<>> /\ tempFiles = {} /\ deferred = <<>>

Resolve ==
    /\ pc = "resolve"
    /\ resolved' = extractPackageFromSymbol(symbolName)
    /\ pc' = "resolved"
    /\ UNCHANGED <<symbolName, binary, symbolVars, reportVars,
                   buildVars, commandVars>>

NextResolve == Resolve

SpecResolve == InitResolve /\ [][NextResolve]_vars

(***************************************************************************)
(* analyzeBinarySymbolTable applied to bounded binaries.                   *)
(***************************************************************************)
MaxSyms == 2
MaxDynSyms == 1

\* SHN_ABS, a section index outside every section list.
SHN_ABS == 65521

RawSyms ==
    [Name : {N_main_run, N_gcStart, N_ab_F, N_noise}, Size : {0, 5}, Section : {1, SHN_ABS}]

DynRawSyms ==
    {[Name |-> N_main_run, Size |-> 5, Section |-> 1],
     [Name |-> N_ab_F, Size |-> 0, Section |-> 1]}

\* os.Stat of the opened file: a size, or a failure.
FileStats == {[fileSize |-> s, statOK |-> TRUE] : s \in FileSizes}
                 \cup {[fileSize |-> 0, statOK |-> FALSE]}

ELFBinaries ==
    {[openOK |-> TRUE, format |-> "ELF", nsections |-> 2, symtab |-> st, dynsym |-> dy,
      fileSize |-> fs.fileSize, statOK |-> fs.statOK] :
        st \in SeqsUpTo(RawSyms, MaxSyms), dy \in SeqsUpTo(DynRawSyms, MaxDynSyms),
        fs \in FileStats}

MachOBinaries ==
    {[openOK |-> TRUE, format |-> "MachO", nsections |-> 2, symtab |-> st, dynsym |-> <<>>,
      fileSize |-> 1000, statOK |-> TRUE] : st \in SeqsUpTo(RawSyms, MaxSyms)}

OtherBinaries ==
    {[openOK |-> ok, format |-> f, nsections |-> 2, symtab |-> st, dynsym |-> <<>>,
      fileSize |-> 1000, statOK |-> TRUE] :
        ok \in BOOLEAN, f \in {"PE", "none"},
        st \in SeqsUpTo({[Name |-> N_main_run, Size |-> 5, Section |-> 1]}, 1)}

\* The scenario of the documentation: four symbols of sizes 10, 5, 20, 3.
ScenarioSymtab ==
    <<[Name |-> N_main_run, Size |-> 10, Section |-> 1],
      [Name |-> N_gcStart, Size |-> 5, Section |-> 1],
      [Name |-> N_github_xy, Size |-> 20, Section |-> 1],
      [Name |-> N_noise, Size |-> 3, Section |-> 1]>>

\* The estimate example: two symbols of one package and eight of another,
\* none with a size, in a file of 1000 bytes.
EstimateSymtab ==
    [i \in 1..10 |-> [Name |-> IF i <= 2 THEN N_main_run ELSE N_gcStart,
                      Size |-> 0, Section |-> 1]]

ScenarioBinaries ==
    {[openOK |-> TRUE, format |-> "ELF", nsections |-> 2, symtab |-> st, dynsym |-> <<>>,
      fileSize |-> 1000, statOK |-> TRUE] : st \in {ScenarioSymtab, EstimateSymtab}}

Binaries == ELFBinaries \cup MachOBinaries \cup OtherBinaries \cup ScenarioBinaries

InitSymbols ==
    /\ pc = "open"
    /\ binary \in Binaries
    /\ archType = "" /\ symbols = <<>> /\ pkgSizes = NilMap /\ symErr = "nil"
    /\ symbolName = S_empty /\ resolved = S_empty
    /\ info = NoInfo /\ modCache = NilMap /\ modules = <<>> /\ rolled = <<>>
    /\ output = <<>> /\ importcfg = NoImportcfg
    /\ BuildCmd = NewBuildCmd /\ command = <<>> /\ tempFiles = {} /\ deferred = <<>>

\* os.Open: on failure the function returns nil and the error.
OpenBinary ==
    /\ pc = "open"
    /\ IF binary.openOK
       THEN pc' = "elf" /\ UNCHANGED symErr
       ELSE pc' = "returned" /\ symErr' = "open"
    /\ UNCHANGED <<binary, resolverVars, archType, symbols, pkgSizes, reportVars,
                   buildVars, commandVars>>

\* A plausible slip: the "else" after the ELF branch left out, so that the
\* Mach-O parser runs on a file that parsed as ELF.
TryELF_fallThrough ==
    /\ pc = "elf"
    /\ IF binary.format = "ELF"
       THEN archType' = "ELF" /\ symbols' = readELF(binary)
       ELSE UNCHANGED <<archType, symbols>>
    /\ pc' = "macho"
    /\ UNCHANGED <<binary, resolverVars, pkgSizes, symErr, reportVars,
                   buildVars, commandVars>>

\* elf.NewFile and the ELF branch.
TryELF ==
    /\ pc = "elf"
    /\ IF binary.format = "ELF"
       THEN archType' = "ELF" /\ symbols' = readELF(binary) /\ pc' = "check"
       ELSE pc' = "macho" /\ UNCHANGED <<archType, symbols>>
    /\ UNCHANGED <<binary, resolverVars, pkgSizes, symErr, reportVars,
                   buildVars, commandVars>>

\* macho.NewFile and the Mach-O branch, reached when ELF parsing failed.
TryMachO ==
    /\ pc = "macho"
    /\ IF binary.format = "MachO"
       THEN archType' = "MachO" /\ symbols' = readMachO(binary) /\ pc' = "check"
       ELSE pc' = "pe" /\ UNCHANGED <<archType, symbols>>
    /\ UNCHANGED <<binary, resolverVars, pkgSizes, symErr, reportVars,
                   buildVars, commandVars>>

\* pe.NewFile and the PE branch, reached when Mach-O parsing failed too.
TryPE ==
    /\ pc = "pe"
    /\ IF binary.format = "PE"
       THEN archType' = "PE" /\ symbols' = readPE(binary)
       ELSE UNCHANGED <<archType, symbols>>
    /\ pc' = "check"
    /\ UNCHANGED <<binary, resolverVars, pkgSizes, symErr, reportVars,
                   buildVars, commandVars>>

\* "if len(symbols) == 0": the function returns nil and an error.
CheckSymbols ==
    /\ pc = "check"
    /\ IF Len(symbols) = 0
       THEN pc' = "returned" /\ symErr' = "no symbols found"
       ELSE pc' = "aggregate" /\ UNCHANGED symErr
    /\ UNCHANGED <<binary, resolverVars, archType, symbols, pkgSizes, reportVars,
                   buildVars, commandVars>>

\* Aggregation, the estimate when the sizes sum to zero, and the return.
Reconcile ==
    /\ pc = "aggregate"
    /\ pkgSizes' = reconcile(symbols, binary.fileSize, binary.statOK)
    /\ pc' = "returned"
    /\ UNCHANGED <<binary, resolverVars, archType, symbols, symErr, reportVars,
                   buildVars, commandVars>>

NextSymbols == OpenBinary \/ TryELF \/ TryMachO \/ TryPE \/ CheckSymbols \/ Reconcile

SpecSymbols == InitSymbols /\ [][NextSymbols]_vars

(***************************************************************************)
(* ProcessBinary, then the roll-up of main, on bounded inputs.             *)
(***************************************************************************)
MaxDeps == 2

P_abc == <<"a", "/", "b", "/", "c">>

MainMods ==
    {Module(S_empty, S_empty), Module(S_main, S_devel),
     Module(P_ab, S_devel), Module(P_ab, S_v123)}

DepMods ==
    {Module(P_ab, S_v123), Module(P_abc, S_v123), Module(P_github_xy, S_v123),
     Module(S_empty, S_v123), NilDep}

\* The build info of the end-to-end scenario of the documentation.
ScenarioInfo ==
    [ok |-> TRUE, Main |-> Module(P_app, S_empty), Deps |-> <<Module(P_lib, S_v123)>>]

Infos ==
    {[ok |-> TRUE, Main |-> m, Deps |-> d] : m \in MainMods, d \in SeqsUpTo(DepMods, MaxDeps)}
        \cup {ScenarioInfo, NoInfo}

File(n) == [isDir |-> FALSE, size |-> n, err |-> FALSE]
Dir == [isDir |-> TRUE, size |-> 4096, err |-> FALSE]
Unreadable(n) == [isDir |-> FALSE, size |-> n, err |-> TRUE]
\* The second visit of a directory whose listing failed, and the only visit
\* of a root that os.Lstat does not find.
UnreadableDir == [isDir |-> TRUE, size |-> 4096, err |-> TRUE]
Missing == [isDir |-> FALSE, size |-> 0, err |-> TRUE]

\* A module cache with every module of the model.
FullCache ==
    (cachePath(P_ab, S_v123) :> [kind |-> "dir", walk |-> <<Dir, File(7), Dir, File(3)>>])
    @@ (cachePath(P_abc, S_v123) :> [kind |-> "dir", walk |-> <<Dir, File(1500)>>])
    @@ (cachePath(P_github_xy, S_v123) :> [kind |-> "dir", walk |-> <<Dir, File(10)>>])
    @@ (cachePath(S_empty, S_v123) :> [kind |-> "dir", walk |-> <<Dir, File(4)>>])
    @@ (cachePath(P_lib, S_v123) :> [kind |-> "dir", walk |-> <<Dir, File(20), Dir, File(5)>>])
    @@ (cachePath(P_ab, S_devel) :> [kind |-> "dir", walk |-> <<Dir, File(9)>>])
    @@ (cachePath(P_app, S_empty) :> [kind |-> "dir", walk |-> <<Dir, File(9)>>])

\* A module cache with a file in place of a directory, an unreadable entry,
\* an empty directory, a directory removed between os.Stat and the walk, and
\* a directory with a subdirectory that cannot be listed.
OddCache ==
    (cachePath(P_ab, S_v123) :> [kind |-> "file"])
    @@ (cachePath(P_github_xy, S_v123) :> [kind |-> "dir", walk |-> <<Dir, Unreadable(50), File(7)>>])
    @@ (cachePath(P_abc, S_v123) :> [kind |-> "dir", walk |-> <<Dir>>])
    @@ (cachePath(S_empty, S_v123) :> [kind |-> "dir", walk |-> <<Missing>>])
    @@ (cachePath(P_lib, S_v123) :> [kind |-> "dir", walk |-> <<Dir, Dir, UnreadableDir, File(6)>>])

Caches == {NilMap, FullCache, OddCache}

Sym(name, size) == [Name |-> name, Size |-> size, Section |-> 1]

ReportSymtabs ==
    {<<>>, <<Sym(N_main_run, 5)>>, <<Sym(N_ab_F, 5), Sym(N_main_run, 10)>>,
     <<Sym(N_ab_F, 0)>>, <<Sym(N_ab_F, 5), Sym(N_ab_F, 5)>>, ScenarioSymtab}

ReportBinaries ==
    {[openOK |-> TRUE, format |-> "ELF", nsections |-> 2, symtab |-> st, dynsym |-> <<>>,
      fileSize |-> 1000, statOK |-> TRUE] : st \in ReportSymtabs}
    \cup
    {[openOK |-> ok, format |-> f, nsections |-> 2, symtab |-> <<Sym(N_ab_F, 0)>>,
      dynsym |-> <<>>, fileSize |-> 1000, statOK |-> TRUE] :
        ok \in BOOLEAN, f \in {"MachO", "PE", "none"}}

\* Lines of the output of the build, and the files they name.
F_b1 == <<"$", "W", "/", "b", "1", "/", "_", "p", "k", "g", "_", ".", "a">>
F_b2 == <<"$", "W", "/", "b", "2", "/", "_", "p", "k", "g", "_", ".", "a">>
L_compile1 == <<"/", "g", "o", "/", "c", "o", "m", "p", "i", "l", "e", " ", "-", "o", " ", "$", "W", "/", "b", "1", "/", "_", "p", "k", "g", "_", ".", "a", " ", "-", "p", " ", "m", "a", "i", "n">>
L_compile2 == <<"/", "g", "o", "/", "c", "o", "m", "p", "i", "l", "e", " ", "-", "p", " ", "a", "/", "b", " ", "-", "o", " ", "$", "W", "/", "b", "2", "/", "_", "p", "k", "g", "_", ".", "a">>
L_compileNoFile == <<"/", "g", "o", "/", "c", "o", "m", "p", "i", "l", "e", " ", "_", "p", "k", "g", "_", ".", "a", " ", "-", "o">>
L_pack1 == <<"p", "a", "c", "k", " ", "r", " ", "$", "W", "/", "b", "1", "/", "_", "p", "k", "g", "_", ".", "a">>
L_pack2 == <<"p", "a", "c", "k", " ", "r", " ", "$", "W", "/", "b", "2", "/", "_", "p", "k", "g", "_", ".", "a">>
L_packOther == <<"p", "a", "c", "k", " ", "r", " ", "$", "W", "/", "b", "2", "/", "x", ".", "a">>
L_mkdir == <<"m", "k", "d", "i", "r", " ", "-", "p", " ", "$", "W", "/", "b", "1", "/">>

MaxLines == 2

BuildLines ==
    {L_compile1, L_compile2, L_compileNoFile, L_pack1, L_pack2, L_packOther, L_mkdir}

Importcfgs ==
    {NoImportcfg,
     [ok |-> TRUE, entries |-> <<[package |-> S_main, file |-> F_b1],
                                 [package |-> P_ab, file |-> F_b2]>>],
     [ok |-> TRUE, entries |-> <<[package |-> P_abc, file |-> F_b1],
                                 [package |-> P_ab, file |-> F_b2],
                                 [package |-> S_main, file |-> F_b1]>>]}

\* main either analyzes a binary (ProcessBinary) or the output of a build
\* (AnalyzeBuildProcess).
Init ==
    /\ archType = "" /\ symbols = <<>> /\ pkgSizes = NilMap /\ symErr = "nil"
    /\ symbolName = S_empty /\ resolved = S_empty
    /\ modules = <<>> /\ rolled = <<>>
    /\ BuildCmd = NewBuildCmd /\ command = <<>> /\ tempFiles = {} /\ deferred = <<>>
    /\ \/ /\ pc = "start"
          /\ binary \in ReportBinaries
          /\ info \in Infos
          /\ modCache \in Caches
          /\ output = <<>> /\ importcfg = NoImportcfg
       \/ /\ pc = "build"
          /\ binary = NoBinary /\ info = NoInfo /\ modCache = NilMap
          /\ output \in SeqsUpTo(BuildLines, MaxLines)
          /\ importcfg \in Importcfgs

\* buildinfo.ReadFile: on failure log.Fatalf ends the process.
ReadBuildInfo ==
    /\ pc = "start"
    /\ pc' = IF info.ok THEN "open" ELSE "fatal"
    /\ UNCHANGED <<binary, resolverVars, symbolVars, reportVars,
                   buildVars, commandVars>>

\* Lines 62-113 of ProcessBinary, once analyzeBinarySymbolTable has returned
\* (its error is logged as a warning and pkgSizes is then the nil map).
AssembleReport ==
    /\ pc = "returned"
    /\ modules' = assembleModules(pkgSizes, modCache, info)
    /\ pc' = "done"
    /\ UNCHANGED <<binary, resolverVars, symbolVars, info, modCache, rolled,
                   buildVars, commandVars>>

\* AnalyzeBuildProcess once the build has printed its output (lines 78-83):
\* the report of parseBuildOutput, and os.Remove of the temporary output.
ParseBuildOutput ==
    /\ pc = "build"
    /\ modules' = parseBuildOutput(output, importcfg)
    /\ tempFiles' = tempFiles \ {TempOutput}
    /\ pc' = "parsed"
    /\ UNCHANGED <<binary, resolverVars, symbolVars, info, modCache, rolled, buildVars,
                   BuildCmd, command, deferred>>

\* aggregateByTopLevelPackage(modules), called by main for the brief output:
\* the entries of the map are appended in the order the range statement
\* yields them, then sorted.
RollUp ==
    /\ pc \in {"done", "parsed"}
    /\ \E order \in rangeOrders(aggregateEntries(modules)) :
           rolled' = aggregateByTopLevelPackage(modules, order)
    /\ pc' = "rolled"
    /\ UNCHANGED <<binary, resolverVars, symbolVars, info, modCache, modules,
                   buildVars, commandVars>>

Next == ReadBuildInfo \/ NextSymbols \/ AssembleReport \/ ParseBuildOutput \/ RollUp

Spec == Init /\ [][Next]_vars

\* The steps compute what the whole function computes.
StepsAgreeWithFunction ==
    pc = "returned" =>
        /\ pkgSizes = analyzeBinarySymbolTable(binary).pkgSizes
        /\ symErr = analyzeBinarySymbolTable(binary).err

(***************************************************************************)
(* BuildAndAnalyzeBinary and AnalyzeBuildProcess from their first line, on *)
(* bounded build commands.                                                 *)
(***************************************************************************)
MaxArgs == 2

\* Arguments a caller appends to BuildCmd.
ExtraArgs == {"-o", "out", "-tags", "netgo", ".", "-x"}

BuildCmds == {NewBuildCmd \o extra : extra \in SeqsUpTo(ExtraArgs, MaxArgs)}

\* What a successful build leaves in goweight-temp-binary: a binary of one of
\* the formats with its build info, or a file without readable build info.
BuiltBinaries ==
    {b \in ReportBinaries : b.openOK /\ b.symtab \in {<<Sym(N_main_run, 5)>>, <<Sym(N_ab_F, 0)>>}}

Built ==
    {[binary |-> b, info |-> ScenarioInfo] : b \in BuiltBinaries}
        \cup {[binary |-> CHOOSE b \in BuiltBinaries : b.format = "none", info |-> NoInfo]}

BuildOutputs == {<<>>, <<L_compile1, L_pack2>>}

InitBuild ==
    /\ pc \in {"buildAndAnalyze", "analyzeBuild"}
    /\ BuildCmd \in BuildCmds
    /\ command = <<>> /\ tempFiles = {} /\ deferred = <<>>
    /\ binary = NoBinary /\ info = NoInfo /\ modCache = NilMap
    /\ archType = "" /\ symbols = <<>> /\ pkgSizes = NilMap /\ symErr = "nil"
    /\ symbolName = S_empty /\ resolved = S_empty
    /\ modules = <<>> /\ rolled = <<>>
    /\ output = <<>> /\ importcfg = NoImportcfg

\* BuildAndAnalyzeBinary, lines 20-35: the command of the build.
DeriveBinaryCmd ==
    /\ pc = "buildAndAnalyze"
    /\ command' = binaryBuildCmd(BuildCmd)
    /\ pc' = "execBuild"
    /\ UNCHANGED <<binary, resolverVars, symbolVars, reportVars, buildVars,
                   BuildCmd, tempFiles, deferred>>

\* Lines 38-45: the build; on an error log.Fatalf ends the process, else the
\* removal of the binary is deferred and ProcessBinary is called.
ExecBuild ==
    /\ pc = "execBuild"
    /\ \/ /\ pc' = "fatal"
          /\ UNCHANGED <<binary, info, tempFiles, deferred>>
       \/ \E built \in Built :
              /\ binary' = built.binary
              /\ info' = built.info
              /\ tempFiles' = tempFiles \cup {TempBinary}
              /\ deferred' = <<TempBinary>>
              /\ pc' = "start"
    /\ UNCHANGED <<resolverVars, symbolVars, modCache, modules, rolled, buildVars,
                   BuildCmd, command>>

\* The return of BuildAndAnalyzeBinary once ProcessBinary has returned: the
\* deferred os.Remove runs.
ReturnFromBuild ==
    /\ pc = "done"
    /\ deferred # <<>>
    /\ tempFiles' = tempFiles \ {deferred[1]}
    /\ deferred' = <<>>
    /\ pc' = "built"
    /\ UNCHANGED <<binary, resolverVars, symbolVars, reportVars, buildVars,
                   BuildCmd, command>>

\* AnalyzeBuildProcess, lines 45-69: the command of the build; main passes
\* no package or one.
DeriveAnalysisCmd ==
    /\ pc = "analyzeBuild"
    /\ \E packages \in {<<>>, <<"./cmd">>} :
           command' = analysisBuildCmd(BuildCmd, packages)
    /\ pc' = "execAnalysis"
    /\ UNCHANGED <<binary, resolverVars, symbolVars, reportVars, buildVars,
                   BuildCmd, tempFiles, deferred>>

\* Lines 71-75: the build; an error is logged and its output parsed all the
\* same.  A build that succeeds leaves the temporary output file.
ExecAnalysis ==
    /\ pc = "execAnalysis"
    /\ output' \in BuildOutputs
    /\ importcfg' \in Importcfgs
    /\ \E ok \in BOOLEAN :
           tempFiles' = IF ok THEN tempFiles \cup {TempOutput} ELSE tempFiles
    /\ pc' = "build"
    /\ UNCHANGED <<binary, resolverVars, symbolVars, reportVars,
                   BuildCmd, command, deferred>>

NextBuild ==
    \/ DeriveBinaryCmd \/ ExecBuild \/ ReadBuildInfo \/ NextSymbols
    \/ AssembleReport \/ ReturnFromBuild
    \/ DeriveAnalysisCmd \/ ExecAnalysis \/ ParseBuildOutput

SpecBuild == InitBuild /\ [][NextBuild]_vars

\* BuildAndAnalyzeBinary runs on until it returns or the process exits: every
\* step of it that can be taken is taken in the end.  (AnalyzeBuildProcess
\* has no part in the life of goweight-temp-binary.)
SpecBuildFair ==
    /\ SpecBuild
    /\ WF_vars(DeriveBinaryCmd) /\ WF_vars(ExecBuild) /\ WF_vars(ReadBuildInfo)
    /\ WF_vars(OpenBinary) /\ WF_vars(TryELF) /\ WF_vars(TryMachO) /\ WF_vars(TryPE)
    /\ WF_vars(CheckSymbols) /\ WF_vars(Reconcile)
    /\ WF_vars(AssembleReport) /\ WF_vars(ReturnFromBuild)

(***************************************************************************)
(* Properties of the resolver.                                             *)
(***************************************************************************)
\* The 0-based index of the last occurrence of c in s, or -1.
LastIndex(s, c) ==
    IF \E i \in 1..Len(s) : s[i] = c
    THEN (CHOOSE i \in 1..Len(s) : s[i] = c /\ \A j \in (i + 1)..Len(s) : s[j] # c) - 1
    ELSE -1

\* p is a dotted host element followed by one or more non-empty
\* slash-separated elements, e.g. github.com/acme/foo.
IsHostImportPath(p) ==
    LET elems == Split(p, "/")
        host == elems[1]
    IN  /\ Len(elems) >= 2
        /\ \A i \in 1..Len(elems) : Len(elems[i]) > 0
        /\ Contains(host, ".")
        /\ host[1] # "." /\ host[Len(host)] # "."
        /\ \A i \in 2..Len(elems) : ~Contains(elems[i], ".")

\* name is <import path>.<identifier> with such an import path.
HasHostImportPathForm(name) ==
    LET ld == LastIndex(name, ".")
    IN  /\ ld > 0
        /\ ld + 1 < Len(name)
        /\ ~Contains(SubSeq(name, ld + 2, Len(name)), "/")
        /\ IsHostImportPath(SubSeq(name, 1, ld))

ImportPathOf(name) == SubSeq(name, 1, LastIndex(name, "."))

\* C1: a symbol name <import path>.<identifier> whose import path starts with
\* a dotted host element followed by slash-separated elements resolves to
\* that import path (github.com/acme/foo.Bar to github.com/acme/foo).
C1_HostImportPathResolved ==
    (pc = "resolved" /\ HasHostImportPathForm(symbolName))
        => resolved = ImportPathOf(symbolName)

Reserved == {S_runtime, S_main, S_go}

\* C2: a symbol name whose text before its first "." is "runtime", "main" or
\* "go" resolves to that segment verbatim, whatever follows the dot.
C2_ReservedPrefixVerbatim ==
    pc = "resolved" =>
        \A r \in Reserved :
            (Len(symbolName) > Len(r) /\ SubSeq(symbolName, 1, Len(r) + 1) = r \o S_dot)
                => resolved = r

C2_Witness ==
    \/ pc = "resolved" /\ symbolName = N_newobject /\ resolved = S_runtime
    \/ pc = "resolved" /\ symbolName = S_go \o S_dot \o S_x \o S_slash /\ resolved = S_go

(***************************************************************************)
(* Properties of analyzeBinarySymbolTable.                                 *)
(***************************************************************************)
RECURSIVE sumOverIndices(_, _)
sumOverIndices(f, idx) ==
    IF idx = {} THEN 0
    ELSE LET i == CHOOSE x \in idx : TRUE
         IN  f[i].Size + sumOverIndices(f, idx \ {i})

\* The records of both symbol tables of the binary.
TableRecords(b) == b.symtab \o b.dynsym

\* The byte size the table records whose names resolve to k carry.
TableMass(b, k) ==
    LET recs == TableRecords(b)
    IN  sumOverIndices(recs, {i \in 1..Len(recs) : extractPackageFromSymbol(recs[i].Name) = k})

\* C3: a symbol whose name resolves to no package is excluded from
\* attribution: the returned map has no key for it, never the empty key, and
\* its size is added to no package's total.
C3_UnresolvedExcluded ==
    (pc = "returned" /\ symErr = "nil") =>
        /\ S_empty \notin DOMAIN pkgSizes
        /\ \A k \in DOMAIN pkgSizes :
               \E i \in 1..Len(TableRecords(binary)) :
                   /\ extractPackageFromSymbol(TableRecords(binary)[i].Name) = k
                   /\ k # TableRecords(binary)[i].Name
        /\ (binary.format = "ELF" /\ \E i \in 1..Len(symbols) : symbols[i].Size > 0)
               => \A k \in DOMAIN pkgSizes : pkgSizes[k] <= TableMass(binary, k)

C3_Witness ==
    /\ pc = "returned" /\ symErr = "nil"
    /\ binary.format = "ELF"
    /\ \E i \in 1..Len(binary.symtab) :
           /\ binary.symtab[i].Name = N_noise
           /\ binary.symtab[i].Size > 0
           /\ binary.symtab[i].Section < binary.nsections
    /\ \E k \in DOMAIN pkgSizes : pkgSizes[k] > 0

\* The packages of a list of resolved symbols, and the bytes of one package.
PackagesOf(syms) == {syms[i].Package : i \in 1..Len(syms)}
SymMass(syms, p) == sumOverIndices(syms, {i \in 1..Len(syms) : syms[i].Package = p})
TotalMass(syms) == sumOverIndices(syms, 1..Len(syms))

\* C4: when the sizes of the resolved symbols sum to more than zero, the
\* returned map maps each package to exactly the sum of the sizes of its
\* symbols, no estimate is applied, and every ordering of the symbols gives
\* the same map.
C4_DirectAggregation ==
    (pc = "returned" /\ symErr = "nil" /\ TotalMass(symbols) > 0) =>
        /\ DOMAIN pkgSizes = PackagesOf(symbols)
        /\ \A p \in PackagesOf(symbols) : pkgSizes[p] = SymMass(symbols, p)
        /\ \A perm \in Permutations(1..Len(symbols)) :
               reconcile([i \in 1..Len(symbols) |-> symbols[perm[i]]],
                         binary.fileSize, binary.statOK) = pkgSizes

C4_Witness ==
    /\ pc = "returned" /\ symErr = "nil"
    /\ \E i, j \in 1..Len(symbols) :
           /\ i # j
           /\ symbols[i].Package = symbols[j].Package
           /\ symbols[i].Size > 0 /\ symbols[j].Size > 0
           /\ pkgSizes[symbols[i].Package] = symbols[i].Size + symbols[j].Size

\* The number of symbols of package p.
SymCount(syms, p) == Cardinality({i \in 1..Len(syms) : syms[i].Package = p})

\* C6: when every resolved symbol has size 0, each package's estimate is
\* (its symbol count / total symbol count) * (file size * 0.7) to within
\* rounding to whole bytes, and the estimates sum to 0.7 * file size within
\* rounding.
C6_ProportionalEstimate ==
    (/\ pc = "returned" /\ symErr = "nil" /\ binary.statOK
     /\ \A i \in 1..Len(symbols) : symbols[i].Size = 0) =>
        LET n == Len(symbols)
            S == binary.fileSize
        IN  /\ \A p \in PackagesOf(symbols) :
                   LET d == 10 * n * pkgSizes[p] - 7 * S * SymCount(symbols, p)
                   IN  -(10 * n) < d /\ d < 10 * n
            /\ LET d == 10 * sumMapValues(pkgSizes) - 7 * S
               IN  -10 < d /\ d < 10

(***************************************************************************)
(* Properties of ProcessBinary and of the roll-up.                         *)
(***************************************************************************)
\* The sum of the sizes of the entries of a report.
ReportTotal(entries) == sumOverIndices(entries, 1..Len(entries))

\* Direct aggregation succeeded: symbols were found and their sizes sum to
\* more than zero.
DirectSucceeded == symErr = "nil" /\ TotalMass(symbols) > 0

\* The entries of the report whose identity has a non-zero size in the map.
SymbolDerived == {i \in 1..Len(modules) : MapGet(pkgSizes, modules[i].Name) > 0}

\* C5 as stated: when direct aggregation succeeds, the sizes of all entries
\* of the report of ProcessBinary sum to at most the total byte size of the
\* resolved symbols.
C5_ReportWithinSymbolMass ==
    (pc = "done" /\ DirectSucceeded) => ReportTotal(modules) <= TotalMass(symbols)

\* C5 as amended: when direct aggregation succeeds, every entry whose identity
\* has a non-zero size in the per-package map is at most the total byte size
\* of the resolved symbols, and these entries, taken once per identity, sum to
\* at most that total; entries sized by the directory fallback are not bounded.
C5_SymbolDerivedWithinMass ==
    (pc = "done" /\ DirectSucceeded) =>
        /\ \A i \in SymbolDerived : modules[i].Size <= TotalMass(symbols)
        /\ LET names == {modules[i].Name : i \in SymbolDerived}
               once == {CHOOSE i \in SymbolDerived : modules[i].Name = k : k \in names}
           IN  sumOverIndices(modules, once) <= TotalMass(symbols)

C5_Witness ==
    /\ pc = "done" /\ DirectSucceeded
    /\ SymbolDerived # {}
    /\ \E j \in 1..Len(modules) : j \notin SymbolDerived /\ modules[j].Size > TotalMass(symbols)

\* C7: every package identity that has a size in the per-package map of the
\* symbol analysis appears as an entry of the report of ProcessBinary, also
\* when no module of the build info has that identity.
C7_SymbolPackagesReported ==
    (pc = "done" /\ symErr = "nil") =>
        \A k \in DOMAIN pkgSizes : \E i \in 1..Len(modules) : modules[i].Name = k

\* The modules of the build info that get an entry: the main module when its
\* path is not empty, and every dependency that is not nil.
ReportedDeps == {i \in 1..Len(info.Deps) : ~info.Deps[i].isNil}
ReportedCount == (IF info.Main.Path # S_empty THEN 1 ELSE 0) + Cardinality(ReportedDeps)

C9_DistinctNonEmptyNames ==
    pc = "done" =>
        /\ \A i \in 1..Len(modules) : modules[i].Name # S_empty
        /\ \A i, j \in 1..Len(modules) : i # j => modules[i].Name # modules[j].Name

\* Every entry is at least as large as the entry after it.
SortedDescending(entries) ==
    \A i \in 1..(Len(entries) - 1) : entries[i].Size >= entries[i + 1].Size

\* C10: the list returned by ProcessBinary and the list returned by
\* aggregateByTopLevelPackage are sorted by size in descending order.
C10_SortedBySizeDescending ==
    /\ pc \in {"done", "rolled"} => SortedDescending(modules)
    /\ pc = "rolled" => SortedDescending(rolled)

C10_Witness ==
    /\ pc = "rolled"
    /\ ~SortedDescending(mainEntries(pkgSizes, modCache, info) \o depEntries(pkgSizes, modCache, info))
    /\ Len(rolled) >= 2
    /\ rolled[1].Size > rolled[Len(rolled)].Size

(***************************************************************************)
(* Order and determinism of the reports.                                   *)
(***************************************************************************)
\* The characters of the model in the order of their byte values.
ByteOrder ==
    <<" ", "$", "(", ")", "*", "-", ".", "/", "0", "1", "2", "3", "4", "5",
      "6", "7", "8", "9", "@", "A", "B", "C", "D", "E", "F", "G", "H", "I",
      "J", "K", "L", "M", "N", "O", "P", "Q", "R", "S", "T", "U", "V", "W",
      "X", "Y", "Z", "_", "a", "b", "c", "d", "e", "f", "g", "h", "i", "j",
      "k", "l", "m", "n", "o", "p", "q", "r", "s", "t", "u", "v", "w", "x",
      "y", "z">>

ByteRank(c) == CHOOSE i \in 1..Len(ByteOrder) : ByteOrder[i] = c

\* a < b for Go strings: byte-wise lexical order.
RECURSIVE LexLess(_, _)
LexLess(a, b) ==
    IF Len(b) = 0 THEN FALSE
    ELSE IF Len(a) = 0 THEN TRUE
    ELSE IF a[1] = b[1] THEN LexLess(Tail(a), Tail(b))
    ELSE ByteRank(a[1]) < ByteRank(b[1])

\* Two entries of one name and entries without a name are a matter of
\* deduplication, not of order, and are not counted against the order here.
TiesByName(entries) ==
    \A i \in 1..(Len(entries) - 1) :
        (/\ entries[i].Size = entries[i + 1].Size
         /\ entries[i].Name # entries[i + 1].Name
         /\ entries[i].Name # S_empty /\ entries[i + 1].Name # S_empty)
            => LexLess(entries[i].Name, entries[i + 1].Name)

\* C11: in any report, two adjacent entries of the same size are ordered by
\* name in ascending lexical order.
C11_TiesOrderedByName ==
    /\ (pc \in {"done", "rolled"} /\ info.ok) => TiesByName(modules)
    /\ pc = "rolled" => TiesByName(rolled)

\* C12: assembly is deterministic: on identical input another run yields the
\* same sequence of entries in the same order, for the report of
\* ProcessBinary and for the rolled-up report, also with entries of equal
\* size.  Every result a run on this input can produce equals the one produced.
C12_AssemblyDeterministic ==
    /\ (pc \in {"done", "rolled"} /\ info.ok) => modules = assembleModules(pkgSizes, modCache, info)
    /\ pc = "rolled" =>
           \A order \in rangeOrders(aggregateEntries(modules)) :
               aggregateByTopLevelPackage(modules, order) = rolled

(***************************************************************************)
(* Properties of the roll-up.                                              *)
(***************************************************************************)
\* The coarse keys of a list of entries, and the entries of one key.
GroupKeys(mods) == {getTopLevelPackage(mods[i].Name) : i \in 1..Len(mods)}
GroupMembers(mods, k) == {i \in 1..Len(mods) : getTopLevelPackage(mods[i].Name) = k}
GroupMass(mods, k) == sumOverIndices(mods, GroupMembers(mods, k))

\* C13: the roll-up holds exactly one entry per distinct coarse key
\* (getTopLevelPackage of the name), the size of that entry is the sum of the
\* sizes of all input entries with that key, and the sizes of the roll-up
\* sum to the sum of the sizes of the input entries.
C13_RollupSizeCorrect ==
    pc = "rolled" =>
        /\ Len(rolled) = Cardinality(GroupKeys(modules))
        /\ \A k \in GroupKeys(modules) :
               \E i \in 1..Len(rolled) :
                   rolled[i].Name = k /\ rolled[i].Size = GroupMass(modules, k)
        /\ \A i \in 1..Len(rolled) : rolled[i].Name \in GroupKeys(modules)
        /\ ReportTotal(rolled) = ReportTotal(modules)

C13_Witness ==
    /\ pc = "rolled"
    /\ Len(rolled) >= 2
    /\ \E i \in 1..Len(rolled) :
           \E m, n \in GroupMembers(modules, rolled[i].Name) :
               /\ m # n
               /\ modules[m].Size > 0 /\ modules[n].Size > 0
               /\ modules[m].Size # modules[n].Size
               /\ rolled[i].Size = modules[m].Size + modules[n].Size

(***************************************************************************)
(* Properties of the directory-size fallback.                              *)
(***************************************************************************)
\* The bytes of the files of a walk that came without an error.
RECURSIVE sumFileSizes(_, _)
sumFileSizes(walk, idx) ==
    IF idx = {} THEN 0
    ELSE LET i == CHOOSE x \in idx : TRUE
         IN  walk[i].size + sumFileSizes(walk, idx \ {i})

AccessibleFiles(walk) == {i \in 1..Len(walk) : ~walk[i].err /\ ~walk[i].isDir}
AccessibleBytes(walk) == sumFileSizes(walk, AccessibleFiles(walk))

\* The directory of the module cache for a module, when there is one.
HasCacheDir(fsys, path, version) ==
    /\ cachePath(path, version) \in DOMAIN fsys
    /\ fsys[cachePath(path, version)].kind = "dir"

CacheDirBytes(fsys, path, version) ==
    IF HasCacheDir(fsys, path, version)
    THEN AccessibleBytes(fsys[cachePath(path, version)].walk)
    ELSE 0

\* The entry of the report with a name, when there is exactly one.
EntryOf(entries, name) == entries[CHOOSE i \in 1..Len(entries) : entries[i].Name = name]

\* C14: for the build info with main module example.com/app without a
\* version and the one dependency example.com/lib@v1.2.3, and a binary with
\* an empty symbol table, ProcessBinary returns exactly two entries:
\* example.com/app of size 0 and example.com/lib of the size of its directory
\* in the module cache when there is one, else 0, sorted by size descending.
C14_ProvenanceOnlyScenario ==
    (pc = "done" /\ info = ScenarioInfo /\ binary.symtab = <<>> /\ binary.dynsym = <<>>) =>
        /\ Len(modules) = 2
        /\ {modules[i].Name : i \in 1..2} = {P_app, P_lib}
        /\ EntryOf(modules, P_app).Size = 0
        /\ EntryOf(modules, P_lib).Size = CacheDirBytes(modCache, P_lib, S_v123)
        /\ modules[1].Size >= modules[2].Size

C14_Witness ==
    /\ pc = "done" /\ info = ScenarioInfo /\ binary.symtab = <<>> /\ binary.dynsym = <<>>
    /\ symErr = "no symbols found"
    /\ HasCacheDir(modCache, P_app, S_empty)
    /\ modules[1].Name = P_lib /\ modules[1].Size = 25
    /\ modules[2].Name = P_app /\ modules[2].Size = 0

\* The versions that name no directory of the module cache.
NoCacheKey(version) == version = S_empty \/ version = S_devel

\* C15: a module whose version is "" or "(devel)" is never looked up in the
\* module cache: without a symbol-derived size its entry has size 0,
\* whatever directories the cache holds, and the run goes on.
C15_DevelNeverLookedUp ==
    /\ pc = "done" =>
           \A i \in 1..Len(modules) :
               (NoCacheKey(modules[i].Version) /\ MapGet(pkgSizes, modules[i].Name) = 0)
                   => modules[i].Size = 0
    /\ \A path \in {S_empty, S_main, P_ab, P_app}, version \in {S_empty, S_devel} :
           estimateModuleSize(modCache, path, version) = 0

C15_Witness ==
    /\ pc = "done"
    /\ \E i \in 1..Len(modules) :
           /\ NoCacheKey(modules[i].Version)
           /\ MapGet(pkgSizes, modules[i].Name) = 0
           /\ CacheDirBytes(modCache, modules[i].Name, modules[i].Version) > 0
           /\ modules[i].Size = 0

\* The entries of the report sized by the walk of a directory.
SizedByWalk ==
    {i \in 1..Len(modules) :
        /\ MapGet(pkgSizes, modules[i].Name) = 0
        /\ ~NoCacheKey(modules[i].Version)
        /\ HasCacheDir(modCache, modules[i].Name, modules[i].Version)}

WalkOf(i) == modCache[cachePath(modules[i].Name, modules[i].Version)].walk

\* C16: the directory-size computation never ends the run: it returns the
\* sum of the sizes of all files of the walk that could be accessed, skipping
\* every entry that came with an error and going on with the entries after
\* it; it returns 0 for an empty directory and 0 for a missing path.
C16_DirSizeSkipsErrors ==
    /\ pc = "fatal" => ~info.ok
    /\ pc = "done" =>
           \A i \in SizedByWalk :
               /\ modules[i].Size = AccessibleBytes(WalkOf(i))
               /\ (WalkOf(i) \in {<<Dir>>, <<Missing>>}) => modules[i].Size = 0

C16_Witness ==
    /\ pc = "done"
    /\ \E i \in SizedByWalk :
           /\ \E j, k \in 1..Len(WalkOf(i)) :
                  j < k /\ WalkOf(i)[j].err /\ k \in AccessibleFiles(WalkOf(i))
           /\ modules[i].Size > 0
    /\ \E i \in SizedByWalk :
           WalkOf(i) \in {<<Dir>>, <<Missing>>} /\ modules[i].Size = 0

(***************************************************************************)
(* Properties of the failure handling.                                     *)
(***************************************************************************)
\* A report was returned to main.
ReportReturned == pc \in {"done", "rolled"}

\* C17: when none of ELF, Mach-O and PE recognizes the binary the analysis
\* aborts: ProcessBinary returns no report, not even one from the build info
\* alone.
C17_UnrecognizedFormatAborts ==
    (info.ok /\ binary.openOK /\ binary.format = "none") => ~ReportReturned

\* C18: whenever the build info was read, ProcessBinary returns a report with
\* an entry for the main module (when its path is not empty) and for every
\* dependency, whatever the outcome of the symbol analysis and whatever the
\* module cache holds; a failure of the symbol analysis ends nothing.
C18_DegradedNeverAborts ==
    /\ info.ok => pc # "fatal"
    /\ (ReportReturned /\ info.ok) =>
           /\ Len(modules) = ReportedCount
           /\ info.Main.Path # S_empty =>
                  \E i \in 1..Len(modules) :
                      modules[i].Name = info.Main.Path /\ modules[i].Version = info.Main.Version
           /\ \A d \in ReportedDeps :
                  \E i \in 1..Len(modules) :
                      /\ modules[i].Name = info.Deps[d].Path
                      /\ modules[i].Version = info.Deps[d].Version

C18_Witness ==
    /\ pc = "done"
    /\ symErr = "no symbols found"
    /\ binary.format = "ELF"
    /\ modCache = NilMap
    /\ info.Main.Path # S_empty
    /\ Len(info.Deps) = MaxDeps
    /\ Len(modules) = MaxDeps + 1

\* A record of the static symbol table whose name resolves to a package and
\* whose section is one of the file.
HasResolvableSymbol(b) ==
    \E i \in 1..Len(b.symtab) :
        /\ extractPackageFromSymbol(b.symtab[i].Name) # S_empty
        /\ b.symtab[i].Section < b.nsections

\* C19: for a binary of any of ELF, Mach-O and PE whose symbol table holds a
\* symbol that resolves to a package, analyzeBinarySymbolTable returns a
\* non-empty per-package map and no "no symbols found" error.
C19_AllFormatsAnalyzed ==
    (/\ pc = "returned" /\ binary.openOK
     /\ binary.format \in {"ELF", "MachO", "PE"}
     /\ HasResolvableSymbol(binary)) =>
        /\ symErr = "nil"
        /\ DOMAIN pkgSizes # {}

(***************************************************************************)
(* Properties of the entries.                                              *)
(***************************************************************************)
\* SizeHuman is the rendering of Size.
Rendered(e) == e.SizeHuman = humanizeBytes(e.Size)

\* The map of the roll-up after each module of the loop.
RolledAfter(n) == aggregateEntries(SubSeq(modules, 1, n))

\* C20: in every entry of every report (ProcessBinary, parseBuildOutput, and
\* the roll-up after each step of its accumulation) SizeHuman is the
\* human-readable rendering of the current Size.
C20_SizeHumanRendersSize ==
    /\ pc \in {"done", "parsed", "rolled"} =>
           \A i \in 1..Len(modules) : Rendered(modules[i])
    /\ pc = "rolled" =>
           /\ \A i \in 1..Len(rolled) : Rendered(rolled[i])
           /\ \A n \in 0..Len(modules) :
                  \A k \in DOMAIN RolledAfter(n) : Rendered(RolledAfter(n)[k])

C20_Witness ==
    /\ pc = "rolled"
    /\ \E i \in 1..Len(rolled) :
           \E m, n \in GroupMembers(modules, rolled[i].Name) :
               /\ m # n
               /\ modules[m].Size > 0 /\ modules[n].Size > 0
               /\ rolled[i].SizeHuman # modules[m].SizeHuman
               /\ rolled[i].SizeHuman # modules[n].SizeHuman
               /\ Rendered(rolled[i])

\* A report of parseBuildOutput with entries, rolled up.
C20_WitnessBuild ==
    /\ pc = "rolled" /\ ~info.ok
    /\ Len(modules) >= 2
    /\ \A i \in 1..Len(modules) : modules[i].SizeHuman = S_zeroB

(***************************************************************************)
(* Properties of the format detection.                                     *)
(***************************************************************************)
\* One step of analyzeBinarySymbolTable keeps the priority ELF, Mach-O, PE.
FormatPriorityStep ==
    /\ pc' = "macho" => (pc = "elf" /\ binary.format # "ELF")
    /\ pc' = "pe" => (pc = "macho" /\ binary.format \notin {"ELF", "MachO"})
    /\ archType # "" => (archType' = archType /\ symbols' = symbols)
    /\ archType' # archType =>
           archType' = (IF pc = "elf" THEN "ELF" ELSE IF pc = "macho" THEN "MachO" ELSE "PE")
    /\ symbols' # symbols => archType' # ""
    /\ pc' = "aggregate" => archType # ""
    /\ pkgSizes' # pkgSizes => (pc = "aggregate" /\ archType # "")

\* C21: format detection selects at most one format in the order ELF,
\* Mach-O, PE: Mach-O is tried only after ELF failed, PE only after both
\* failed, no symbols are read once a format parsed, and aggregation and
\* estimation run only after the selection and never without one.
C21_FormatPriority == [][FormatPriorityStep]_vars

C21_Witness ==
    /\ pc = "returned" /\ symErr = "nil"
    /\ archType = "MachO"
    /\ DOMAIN pkgSizes # {}

\* C22: for an ELF binary the dynamic symbol table is consulted if and only
\* if the static symbol table is empty: when the static table holds a symbol
\* record the collected symbols are those of the static table alone, and
\* when it holds none they are those of the dynamic table.
C22_DynamicOnlyIfStaticEmpty ==
    (pc \in {"check", "aggregate", "returned"} /\ binary.format = "ELF") =>
        symbols = IF Len(binary.symtab) > 0
                  THEN elfSymbols(binary.symtab, binary.nsections)
                  ELSE elfSymbols(binary.dynsym, binary.nsections)

\* C23: the reader gives size 0 to every symbol of a format that exposes no
\* sizes (Mach-O), so that the direct aggregation of such a binary is all
\* zero and its sizes come from the proportional estimate.
C23_NoSizeMeansZero ==
    (pc \in {"check", "aggregate", "returned"} /\ archType = "MachO") =>
        /\ \A i \in 1..Len(symbols) : symbols[i].Size = 0
        /\ (pc = "returned" /\ symErr = "nil" /\ binary.statOK) =>
               \A p \in DOMAIN pkgSizes :
                   pkgSizes[p] = SymCount(symbols, p) * avgSymbolSize(binary.fileSize, Len(symbols))

(***************************************************************************)
(* Properties of the resolver on method symbols.                           *)
(***************************************************************************)
\* name is p.Func, p.Type.Method or p.(*Type).Method for a package path p
\* with a slash and without a dot: the text before the first dot holds a
\* slash, and one or two non-empty segments without a slash follow.
IsPackageSymbol(name) ==
    LET idx == Index(name, ".")
        rest == Split(SubSeq(name, idx + 2, Len(name)), ".")
    IN  /\ idx > 0
        /\ Contains(SubSeq(name, 1, idx), "/")
        /\ name[1] # "/" /\ name[idx] # "/"
        /\ Len(rest) \in {1, 2}
        /\ \A i \in 1..Len(rest) : Len(rest[i]) > 0 /\ ~Contains(rest[i], "/")

\* C24: for every package path p with a slash, the function symbol p.Func and
\* the method symbols p.Type.Method and p.(*Type).Method resolve to p: the
\* result never holds a type or receiver segment.
C24_MethodsResolveToPackage ==
    (pc = "resolved" /\ IsPackageSymbol(symbolName)) =>
        resolved = SubSeq(symbolName, 1, Index(symbolName, "."))

(***************************************************************************)
(* Properties of the build commands and of the temporary binary.           *)
(***************************************************************************)
\* The arguments of a command, as a set.
Args(cmd) == {cmd[i] : i \in 1..Len(cmd)}

\* The output file names of a command as the go tool reads it: the argument
\* after each "-o", which is never read as a flag itself.
RECURSIVE outputNames(_)
outputNames(cmd) ==
    IF Len(cmd) < 2 THEN {}
    ELSE IF cmd[1] = "-o" THEN {cmd[2]} \cup outputNames(SubSeq(cmd, 3, Len(cmd)))
    ELSE outputNames(Tail(cmd))

\* The arguments of a command that are neither "-o" nor an output file name.
RECURSIVE otherArgs(_)
otherArgs(cmd) ==
    IF Len(cmd) = 0 THEN {}
    ELSE IF cmd[1] = "-o" THEN otherArgs(SubSeq(cmd, 3, Len(cmd)))
    ELSE {cmd[1]} \cup otherArgs(Tail(cmd))

\* Every "-o" of BuildCmd is followed by a file name that occurs in no other
\* role.
OutputFlagsWellFormed(cmd) ==
    /\ cmd[Len(cmd)] # "-o"
    /\ outputNames(cmd) \cap otherArgs(cmd) = {}
    /\ "-o" \notin outputNames(cmd)

\* C25: in the command derived from BuildCmd the "-o" of the original command
\* and the file name after it are skipped: the original output file name is
\* no argument of the derived command, whose only output file is the
\* temporary one.
C25_OutputFlagSkipped ==
    (command # <<>> /\ OutputFlagsWellFormed(BuildCmd)) =>
        /\ outputNames(BuildCmd) \cap Args(command) = {}
        /\ outputNames(command) \in {{TempBinary}, {TempOutput}}

\* C26: once the build has left goweight-temp-binary, the file is removed in
\* the end on every way the operation ends, also when reading the build
\* info fails inside ProcessBinary.
C26_TempBinaryRemoved == (TempBinary \in tempFiles) ~> (TempBinary \notin tempFiles)

====
